---- MODULE Spec2Model ----
(***************************************************************************)
(* lunr.Pipeline (src/lunr/pipeline.py): the process-wide function         *)
(* registry, one Pipeline instance and the calls made on it.               *)
(*                                                                         *)
(* Function objects are the elements of Fns (compared by identity, as      *)
(* Python compares functions).  Strings are TLA+ strings; a Python list    *)
(* is a sequence; a Python dict or a set of object attributes is a         *)
(* function whose DOMAIN is the set of keys present.                       *)
(***************************************************************************)
EXTENDS Naturals, Sequences, FiniteSets, TLC

VARIABLES
    registered_functions,  \* Pipeline.registered_functions: label -> function
    label,                 \* the .label attribute of the functions that have one
    stack,                 \* self._stack of the pipeline under test
    LANGUAGE_SUPPORT,      \* lunr.languages: whether nltk could be imported
    last                   \* the last call: its arguments, _stack before it, outcome

vars == <<registered_functions, label, stack, LANGUAGE_SUPPORT, last>>

\* ------------------------------------------------------------------ bounds
MaxStack  == 3   \* longest _stack
MaxInit   == 2   \* longest _stack a populated pipeline starts with
MaxTokens == 2   \* longest token list given to run
MaxAdd    == 2   \* most arguments of one add call
MaxLoad   == 2   \* longest serialised pipeline given to load
MaxLangs  == 2   \* longest language list given to get_nltk_builder
MaxRegistry == 2 \* most labels the registry comes to hold beyond the stemmers'

\* ------------------------------------------------------------ the universe
\* Three function objects.  What each returns when called is Apply below.
Fns == {"f1", "f2", "f3"}
Labels == {"a", "b"}
Tokens == {"a", "cats", "dogs"}

RECURSIVE SeqsUpTo(_, _)
SeqsUpTo(S, n) ==
    IF n = 0 THEN {<< >>}
    ELSE LET shorter == SeqsUpTo(S, n - 1)
         IN  shorter \cup {Append(s, x) : s \in {t \in shorter : Len(t) = n - 1}, x \in S}

\* The argument lists the calls are tried with.
TokenLists == SeqsUpTo(Tokens, MaxTokens)
AddArgs == SeqsUpTo(Fns, MaxAdd)
Serialised == SeqsUpTo(Labels, MaxLoad)
InitStacks == SeqsUpTo(Fns, MaxInit)

\* The stages: fn(token, i, tokens) -> string, i counted from 0.
\*   f1  drops tokens shorter than 3 characters (returns '')
\*   f2  a stemmer: strips the plural, never returns ''
\*   f3  marks the last token of the list it is given, never returns ''
Apply(fn, token, i, tokens) ==
    CASE fn = "f1" -> IF Len(token) < 3 THEN "" ELSE token
      [] fn = "f2" -> (CASE token = "cats" -> "cat"
                         [] token = "dogs" -> "dog"
                         [] OTHER -> token)
      [] OTHER     -> IF i = Len(tokens) - 1 THEN token \o "!" ELSE token

\* ------------------------------------------------------ Python list methods
\* x in s.  list.index(x) and list.remove(x) raise ValueError exactly when
\* this is false.
Contains(s, x) == \E k \in 1..Len(s) : s[k] = x

\* list.index(x) when x is present: 0-based position of the first element
\* equal to x.
IndexOf(s, x) == (CHOOSE k \in 1..Len(s) : s[k] = x /\ \A j \in 1..(k - 1) : s[j] # x) - 1

\* list.insert(i, x) for 0 <= i: x ends up at 0-based position min(i, len).
InsertAt(s, i, x) ==
    LET at == IF i > Len(s) THEN Len(s) ELSE i
    IN  SubSeq(s, 1, at) \o <<x>> \o SubSeq(s, at + 1, Len(s))

\* list.remove(x) when x is present: deletes the first element equal to x.
RemoveFirst(s, x) ==
    LET at == IndexOf(s, x)
    IN  SubSeq(s, 1, at) \o SubSeq(s, at + 2, Len(s))

\* str.format(arg): every '{}' piece of the template is replaced by arg; a
\* template without a replacement field comes back unchanged.
Format(template, arg) ==
    [k \in 1..Len(template) |-> IF template[k] = "{}" THEN arg ELSE template[k]]

\* No call yet.  A call records its name and arguments, _stack and the
\* registry as they were before it, the exception that left it (err, msg),
\* the warnings logged and the value returned.
\* What a call of get_nltk_builder made: the pipelines Builder() came with,
\* the character class handed to generate_trimmer, the label the trimmer was
\* registered under ('' when it was not), the builder's two pipelines as the
\* call left them, and whether the builder was returned.
NoBuilder == [initial |-> << >>, initial_search |-> << >>, word_characters |-> << >>,
              trimmer_label |-> "", pipeline |-> << >>, search_pipeline |-> << >>,
              returned |-> FALSE]

NoCall == [op |-> "none", args |-> << >>, pre |-> << >>, pre_registry |-> << >>,
           err |-> "none", msg |-> << >>, log |-> {}, result |-> << >>,
           built |-> NoBuilder]

Called(op, args) ==
    [NoCall EXCEPT !.op = op, !.args = args, !.pre = stack,
                   !.pre_registry = registered_functions]

\* ------------------------------------------------- Pipeline: pure helpers
\* warn_if_function_not_registered(fn): reading fn.label raises AttributeError
\* when fn has no label, and only then is the warning logged; with a label
\* the membership test is returned and nothing is logged.
WarnLog(fn) ==
    IF fn \in DOMAIN label THEN {} ELSE {<<"not registered", fn>>}

\* self._stack.push(fn): _stack is a Python list, which has no attribute
\* 'push'; the attribute lookup raises AttributeError and the list is untouched.
Push(s, fn) == [err |-> "AttributeError", stack |-> s]

\* add(*args) on a pipeline whose _stack is s: for each fn, warn, then push;
\* the first exception ends the loop and propagates.
RECURSIVE AddLoop(_, _, _, _)
AddLoop(s, args, i, log) ==
    IF i > Len(args) THEN [err |-> "none", stack |-> s, log |-> log]
    ELSE LET w == log \cup WarnLog(args[i])
             p == Push(s, args[i])
         IN  IF p.err # "none"
             THEN [err |-> p.err, stack |-> p.stack, log |-> w]
             ELSE AddLoop(p.stack, args, i + 1, w)

AddCall(s, args) == AddLoop(s, args, 1, {})

\* before with a search that answers -1 for an absent existing_fn: new_fn is
\* inserted at -1 (before the last element) and only then is the miss raised.
BeforeCallInsertsOnMiss(s, existing_fn, new_fn) ==
    IF Contains(s, existing_fn)
    THEN [err |-> "none", msg |-> << >>,
          stack |-> InsertAt(s, IndexOf(s, existing_fn), new_fn)]
    ELSE [err |-> "Exception", msg |-> <<"Cannot find existing_fn">>,
          stack |-> InsertAt(s, IF Len(s) = 0 THEN 0 ELSE Len(s) - 1, new_fn)]

\* before(existing_fn, new_fn): index raises ValueError when existing_fn is
\* absent, re-raised as Exception('Cannot find existing_fn').
BeforeCall(s, existing_fn, new_fn) ==
    IF Contains(s, existing_fn)
    THEN [err |-> "none", msg |-> << >>,
          stack |-> InsertAt(s, IndexOf(s, existing_fn), new_fn)]
    ELSE [err |-> "Exception", msg |-> <<"Cannot find existing_fn">>, stack |-> s]

\* after with the insertion made at index instead of index + 1.
AfterCallAtIndex(s, existing_fn, new_fn) ==
    IF Contains(s, existing_fn)
    THEN [err |-> "none", msg |-> << >>,
          stack |-> InsertAt(s, IndexOf(s, existing_fn), new_fn)]
    ELSE [err |-> "Exception", msg |-> <<"Cannot find existing_fn">>, stack |-> s]

\* after(existing_fn, new_fn): as before, inserting at index + 1.
AfterCall(s, existing_fn, new_fn) ==
    IF Contains(s, existing_fn)
    THEN [err |-> "none", msg |-> << >>,
          stack |-> InsertAt(s, IndexOf(s, existing_fn) + 1, new_fn)]
    ELSE [err |-> "Exception", msg |-> <<"Cannot find existing_fn">>, stack |-> s]

\* remove deleting every occurrence of fn.
RemoveCallAll(s, fn) == SelectSeq(s, LAMBDA y : y # fn)

\* remove(fn): list.remove, its ValueError swallowed.
RemoveCall(s, fn) == IF Contains(s, fn) THEN RemoveFirst(s, fn) ELSE s

\* The inner loop of run without its break: every token is scanned.
RECURSIVE StageLoopNoBreak(_, _, _, _)
StageLoopNoBreak(fn, tokens, i, result) ==
    IF i > Len(tokens) THEN result
    ELSE StageLoopNoBreak(fn, tokens, i + 1, result \o Apply(fn, tokens[i], i - 1, tokens))

\* The inner loop of run for one stage: result += fn(token, i, tokens) over
\* the tokens given to run, leaving the loop once result is falsy ('').
RECURSIVE StageLoop(_, _, _, _)
StageLoop(fn, tokens, i, result) ==
    IF i > Len(tokens) THEN result
    ELSE LET r == result \o Apply(fn, tokens[i], i - 1, tokens)
         IN  IF r = "" THEN r ELSE StageLoop(fn, tokens, i + 1, r)

\* run(tokens): one result per function of _stack, each computed from tokens.
RunCall(s, tokens) == [k \in 1..Len(s) |-> StageLoop(s[k], tokens, 1, "")]

\* to_json(): [fn.label for fn in self._stack]; AttributeError when a function
\* of the stack has no label.
ToJsonCall(s) ==
    IF \A k \in 1..Len(s) : s[k] \in DOMAIN label
    THEN [err |-> "none", result |-> [k \in 1..Len(s) |-> label[s[k]]]]
    ELSE [err |-> "AttributeError", result |-> << >>]

\* The message of the exception load raises for fn_name.
LoadMessage(fn_name) == Format(<<"Cannot load unregistered function ">>, fn_name)

\* load(serialised): a fresh pipeline p; each name is looked up in the
\* registry (KeyError -> Exception) and the function found is added to p.
RECURSIVE LoadLoop(_, _, _)
LoadLoop(serialised, i, p) ==
    IF i > Len(serialised) THEN [err |-> "none", msg |-> << >>, stack |-> p]
    ELSE IF serialised[i] \notin DOMAIN registered_functions
         THEN [err |-> "Exception", msg |-> LoadMessage(serialised[i]), stack |-> p]
         ELSE LET a == AddCall(p, <<registered_functions[serialised[i]]>>)
              IN  IF a.err # "none"
                  THEN [err |-> a.err, msg |-> << >>, stack |-> a.stack]
                  ELSE LoadLoop(serialised, i + 1, a.stack)

LoadCall(serialised) == LoadLoop(serialised, 1, << >>)

\* register_function taking the label away from the functions that carried it.
RegisterLabelsExclusive(fn, l) ==
    [g \in {h \in DOMAIN label : label[h] # l} \cup {fn} |-> IF g = fn THEN l ELSE label[g]]

\* register_function(fn, label): the new contents of fn's attributes and of
\* the registry, and the warning logged when the label was already bound.
RegisterLabels(fn, l) == (fn :> l) @@ label

\* register_function rebinding the registry to the one label it is given.
RegisterRegistryAfresh(fn, l) == (l :> fn)

\* register_function keeping the function a label is already bound to.
RegisterRegistryKeepsFirst(fn, l) == registered_functions @@ (l :> fn)

RegisterRegistry(fn, l) == (RegisterLabels(fn, l)[fn] :> fn) @@ registered_functions

RegisterLog(l) ==
    IF l \in DOMAIN registered_functions THEN {<<"overwrite", l>>} ELSE {}

\* ------------------------------------------------------ lunr.languages
\* SUPPORTED_LANGUAGES, cut to three of its sixteen entries: the default
\* language, a language served by the nltk corpus and 'fa'.
SUPPORTED_LANGUAGES == [fa |-> "arabic", en |-> "english", fr |-> "french"]

\* The language codes get_nltk_builder is called with: the supported ones and
\* one that is not.
Languages == DOMAIN SUPPORTED_LANGUAGES \cup {"zz"}

LanguageLists == SeqsUpTo(Languages, MaxLangs)

\* nltk.corpus.stopwords.words(verbose_language): a few words per language,
\* each word the sequence of its characters (in Latin transcription).
NltkStopwords(verbose_language) ==
    CASE verbose_language = "arabic" -> {<<"f", "i">>, <<"m", "n">>}
      [] verbose_language = "french" -> {<<"l", "e">>, <<"d", "e">>}
      [] OTHER -> {<<"t", "h", "e">>}

\* persian_stopwords: the words of the literal, split at the blanks.
persian_stopwords == {<<"w">>, <<"d", "r">>, <<"b", "h">>, <<"m", "i">>}

\* Code points, the order sorted() puts strings of one character in; the
\* two-character marker '\w' sorts by its backslash.
CodePoint(c) ==
    CASE c = "\\w" -> 92 [] c = "b" -> 98 [] c = "d" -> 100 [] c = "e" -> 101
      [] c = "f" -> 102 [] c = "h" -> 104 [] c = "i" -> 105 [] c = "l" -> 108
      [] c = "m" -> 109 [] c = "n" -> 110 [] c = "r" -> 114 [] c = "t" -> 116
      [] OTHER -> 119

\* sorted(S) of a set of such strings; ''.join of it is kept as the sequence
\* of the strings joined.
RECURSIVE Insort(_, _)
Insort(sorted, x) ==
    IF sorted = << >> \/ CodePoint(x) < CodePoint(Head(sorted)) THEN <<x>> \o sorted
    ELSE <<Head(sorted)>> \o Insort(Tail(sorted), x)

RECURSIVE Sorted(_)
Sorted(S) ==
    IF S = {} THEN << >>
    ELSE LET x == CHOOSE y \in S : TRUE
         IN  Insort(Sorted(S \ {x}), x)

\* sep.join(strings) and the string a formatted template stands for.
RECURSIVE Join(_, _)
Join(strings, sep) ==
    IF Len(strings) = 0 THEN ""
    ELSE IF Len(strings) = 1 THEN strings[1]
    ELSE strings[1] \o sep \o Join(Tail(strings), sep)

Flat(pieces) == Join(pieces, "")

StemmerLabel(language) == Flat(Format(<<"stemmer-", "{}">>, language))

\* 'fa' taking its word characters from the nltk corpus it first fetched.
StopwordsAndWordCharactersOfCorpus(language) ==
    IF ~LANGUAGE_SUPPORT THEN [err |-> "NameError", stopwords |-> {}, word_characters |-> {}]
    ELSE IF language \notin DOMAIN SUPPORTED_LANGUAGES
    THEN [err |-> "KeyError", stopwords |-> {}, word_characters |-> {}]
    ELSE LET corpus == NltkStopwords(SUPPORTED_LANGUAGES[language])
         IN  [err |-> "none",
              stopwords |-> IF language = "fa" THEN persian_stopwords ELSE corpus,
              word_characters |-> {w[k] : <<w, k>> \in {<<v, j>> \in corpus \X (1..3) : j <= Len(v)}}]

\* _get_stopwords_and_word_characters(language).  Without nltk the name nltk
\* is unbound and its first use raises NameError; an unsupported code raises
\* KeyError at the lookup in SUPPORTED_LANGUAGES.
StopwordsAndWordCharacters(language) ==
    IF ~LANGUAGE_SUPPORT THEN [err |-> "NameError", stopwords |-> {}, word_characters |-> {}]
    ELSE IF language \notin DOMAIN SUPPORTED_LANGUAGES
    THEN [err |-> "KeyError", stopwords |-> {}, word_characters |-> {}]
    ELSE LET corpus == NltkStopwords(SUPPORTED_LANGUAGES[language])
             stopwords == IF language = "fa" THEN persian_stopwords ELSE corpus
         IN  [err |-> "none", stopwords |-> stopwords,
              word_characters |-> {w[k] : <<w, k>> \in {<<v, j>> \in stopwords \X (1..3) : j <= Len(v)}}]

\* generate_stop_word_filter(stopwords, language=language) and
\* generate_trimmer(word_characters): each returns a new function object.
GenerateStopWordFilter(stopwords, language) == "stop_word_filter(" \o language \o ")"

GenerateTrimmer(languages) == "multi_trimmer(" \o Join(languages, ",") \o ")"

\* Builder(): what each of the two pipelines of a new builder holds.
BuilderStacks == {<< >>, <<"stop_word_filter", "stemmer">>}

\* The loop refusing every language, "en" too, when nltk is missing.
RECURSIVE LanguageLoopNeedingNltk(_, _, _)
LanguageLoopNeedingNltk(languages, i, acc) ==
    IF i > Len(languages) THEN acc
    ELSE IF ~LANGUAGE_SUPPORT THEN [acc EXCEPT !.err = "NameError"]
    ELSE IF languages[i] = "en"
    THEN LanguageLoopNeedingNltk(languages, i + 1,
             [acc EXCEPT !.all_stemmers = Append(@, "stemmer"),
                         !.all_stopwords_filters = Append(@, "stop_word_filter"),
                         !.all_word_characters = @ \cup {"\\w"}])
    ELSE LET r == StopwordsAndWordCharacters(languages[i])
         IN  IF r.err # "none" THEN [acc EXCEPT !.err = r.err]
             ELSE IF StemmerLabel(languages[i]) \notin DOMAIN registered_functions
             THEN [acc EXCEPT !.err = "KeyError"]
             ELSE LanguageLoopNeedingNltk(languages, i + 1,
                      [acc EXCEPT
                           !.all_stemmers =
                               Append(@, registered_functions[StemmerLabel(languages[i])]),
                           !.all_stopwords_filters =
                               Append(@, GenerateStopWordFilter(r.stopwords, languages[i])),
                           !.all_word_characters = @ \cup r.word_characters])

\* The loop over languages of get_nltk_builder, from the i-th language on.
RECURSIVE LanguageLoop(_, _, _)
LanguageLoop(languages, i, acc) ==
    IF i > Len(languages) THEN acc
    ELSE IF languages[i] = "en"
    THEN LanguageLoop(languages, i + 1,
             [acc EXCEPT !.all_stemmers = Append(@, "stemmer"),
                         !.all_stopwords_filters = Append(@, "stop_word_filter"),
                         !.all_word_characters = @ \cup {"\\w"}])
    ELSE LET r == StopwordsAndWordCharacters(languages[i])
         IN  IF r.err # "none" THEN [acc EXCEPT !.err = r.err]
             ELSE IF StemmerLabel(languages[i]) \notin DOMAIN registered_functions
             THEN [acc EXCEPT !.err = "KeyError"]
             ELSE LanguageLoop(languages, i + 1,
                      [acc EXCEPT
                           !.all_stemmers =
                               Append(@, registered_functions[StemmerLabel(languages[i])]),
                           !.all_stopwords_filters =
                               Append(@, GenerateStopWordFilter(r.stopwords, languages[i])),
                           !.all_word_characters = @ \cup r.word_characters])

\* pipeline.add(fn) for each fn of fns in turn, up to the first that raises.
RECURSIVE AddEach(_, _, _)
AddEach(s, fns, i) ==
    IF i > Len(fns) THEN [err |-> "none", stack |-> s]
    ELSE LET a == AddCall(s, <<fns[i]>>)
         IN  IF a.err # "none" THEN [err |-> a.err, stack |-> a.stack]
             ELSE AddEach(a.stack, fns, i + 1)

\* sorted(languages): the codes in the order of their strings.
LanguageRank(language) ==
    CASE language = "en" -> 1 [] language = "fa" -> 2 [] language = "fr" -> 3
      [] OTHER -> 4

RECURSIVE InsortLanguage(_, _)
InsortLanguage(sorted, x) ==
    IF sorted = << >> \/ LanguageRank(x) < LanguageRank(Head(sorted)) THEN <<x>> \o sorted
    ELSE <<Head(sorted)>> \o InsortLanguage(Tail(sorted), x)

RECURSIVE SortedLanguages(_)
SortedLanguages(languages) ==
    IF languages = << >> THEN << >>
    ELSE InsortLanguage(SortedLanguages(Tail(languages)), Head(languages))

\* The trimmer registered under a label made of the sorted languages.
TrimmerLabelSorted(languages) ==
    Flat(Format(<<"lunr-multi-trimmer-", "{}">>, Join(SortedLanguages(languages), "-")))

\* The label the merged trimmer is registered under.
TrimmerLabel(languages) ==
    Flat(Format(<<"lunr-multi-trimmer-", "{}">>, Join(languages, "-")))

\* get_nltk_builder making its builder and registering the trimmer before it
\* looks at the languages.
GetNltkBuilderRegistersFirst(languages, bp, bs) ==
    LET loop == LanguageLoop(languages, 1,
                    [err |-> "none", all_stemmers |-> << >>,
                     all_stopwords_filters |-> << >>, all_word_characters |-> {}])
        trimmer == GenerateTrimmer(languages)
        p == IF loop.err # "none" THEN [err |-> loop.err, stack |-> << >>]
             ELSE AddEach(<< >>, <<trimmer>> \o loop.all_stopwords_filters
                                     \o loop.all_stemmers, 1)
    IN  [err |-> p.err, registered |-> TRUE, trimmer |-> trimmer,
         built |-> [NoBuilder EXCEPT
                        !.initial = bp, !.initial_search = bs,
                        !.word_characters = Sorted(loop.all_word_characters),
                        !.trimmer_label = TrimmerLabel(languages),
                        !.pipeline = p.stack,
                        !.search_pipeline = bs]]

\* get_nltk_builder(languages) with a Builder() whose pipelines hold bp and
\* bs: the exception it ends with, whether the trimmer was registered, the
\* trimmer, and the builder.
GetNltkBuilder(languages, bp, bs) ==
    LET loop == LanguageLoop(languages, 1,
                    [err |-> "none", all_stemmers |-> << >>,
                     all_stopwords_filters |-> << >>, all_word_characters |-> {}])
        started == [NoBuilder EXCEPT !.initial = bp, !.initial_search = bs]
    IN  IF loop.err # "none"
        THEN [err |-> loop.err, registered |-> FALSE, trimmer |-> "", built |-> started]
        ELSE LET trimmer == GenerateTrimmer(languages)
                 p == AddEach(<< >>, <<trimmer>> \o loop.all_stopwords_filters
                                         \o loop.all_stemmers, 1)
                 q == IF p.err # "none" THEN [err |-> p.err, stack |-> bs]
                      ELSE AddEach(bs, loop.all_stemmers, 1)
             IN  [err |-> q.err, registered |-> TRUE, trimmer |-> trimmer,
                  built |-> [started EXCEPT
                                 !.word_characters = Sorted(loop.all_word_characters),
                                 !.trimmer_label = TrimmerLabel(languages),
                                 !.pipeline = p.stack,
                                 !.search_pipeline = q.stack,
                                 !.returned = (q.err = "none")]]

\* register_languages(): every supported language but 'en' gets its stemmer, a
\* partial of nltk_stemmer, registered under 'stemmer-<language>'.
LanguageStemmer(language) == "partial(nltk_stemmer, " \o language \o ")"

RegisteredLanguageLabels ==
    [fn \in {LanguageStemmer(l) : l \in DOMAIN SUPPORTED_LANGUAGES \ {"en"}} |->
        StemmerLabel(CHOOSE l \in DOMAIN SUPPORTED_LANGUAGES : LanguageStemmer(l) = fn)]

RegisteredLanguages ==
    [k \in {StemmerLabel(l) : l \in DOMAIN SUPPORTED_LANGUAGES \ {"en"}} |->
        LanguageStemmer(CHOOSE l \in DOMAIN SUPPORTED_LANGUAGES : StemmerLabel(l) = k)]

\* The registry is let grow to MaxRegistry labels beyond the stemmers'.
StemmerLabels == {StemmerLabel(l) : l \in Languages}

Registrable(l) ==
    Cardinality((DOMAIN registered_functions \cup {l}) \ StemmerLabels) <= MaxRegistry

\* ------------------------------------------------------------------ states
\* Import of lunr.pipeline alone (lunr.languages is not loaded, so nltk is
\* not either) and Pipeline(): an empty registry, no labelled function, an
\* empty _stack.
Init ==
    /\ registered_functions = << >>
    /\ label = << >>
    /\ stack = << >>
    /\ LANGUAGE_SUPPORT = FALSE
    /\ last = NoCall

\* The same, for a pipeline whose _stack list already holds functions: _stack
\* is a plain list attribute, and before, after, remove, run and to_json work
\* on whatever list it holds.  (Through add alone it never leaves [], see Push.)
InitStack ==
    /\ registered_functions = << >>
    /\ label = << >>
    /\ stack \in InitStacks
    /\ LANGUAGE_SUPPORT = FALSE
    /\ last = NoCall

\* Import of lunr.languages, with nltk installed or not: with it, the module
\* ends by calling register_languages().
InitLang ==
    /\ LANGUAGE_SUPPORT \in BOOLEAN
    /\ registered_functions = IF LANGUAGE_SUPPORT THEN RegisteredLanguages ELSE << >>
    /\ label = IF LANGUAGE_SUPPORT THEN RegisteredLanguageLabels ELSE << >>
    /\ stack = << >>
    /\ last = NoCall

\* ----------------------------------------------------------------- actions
Register ==
    \E fn \in Fns, l \in Labels :
        /\ Registrable(l)
        /\ label' = RegisterLabels(fn, l)
        /\ registered_functions' = RegisterRegistry(fn, l)
        /\ last' = [Called("register_function", <<fn, l>>) EXCEPT !.log = RegisterLog(l)]
        /\ UNCHANGED <<stack, LANGUAGE_SUPPORT>>

Add ==
    \E args \in AddArgs :
        /\ LET a == AddCall(stack, args)
           IN  /\ stack' = a.stack
               /\ last' = [Called("add", args) EXCEPT !.err = a.err, !.log = a.log]
        /\ UNCHANGED <<registered_functions, label, LANGUAGE_SUPPORT>>

Before ==
    \E existing_fn \in Fns, new_fn \in Fns :
        /\ Len(stack) < MaxStack
        /\ LET b == BeforeCall(stack, existing_fn, new_fn)
           IN  /\ stack' = b.stack
               /\ last' = [Called("before", <<existing_fn, new_fn>>) EXCEPT
                               !.err = b.err, !.msg = b.msg, !.log = WarnLog(new_fn)]
        /\ UNCHANGED <<registered_functions, label, LANGUAGE_SUPPORT>>

After ==
    \E existing_fn \in Fns, new_fn \in Fns :
        /\ Len(stack) < MaxStack
        /\ LET b == AfterCall(stack, existing_fn, new_fn)
           IN  /\ stack' = b.stack
               /\ last' = [Called("after", <<existing_fn, new_fn>>) EXCEPT
                               !.err = b.err, !.msg = b.msg, !.log = WarnLog(new_fn)]
        /\ UNCHANGED <<registered_functions, label, LANGUAGE_SUPPORT>>

Remove ==
    \E fn \in Fns :
        /\ stack' = RemoveCall(stack, fn)
        /\ last' = Called("remove", <<fn>>)
        /\ UNCHANGED <<registered_functions, label, LANGUAGE_SUPPORT>>

Reset ==
    /\ stack' = << >>
    /\ last' = Called("reset", << >>)
    /\ UNCHANGED <<registered_functions, label, LANGUAGE_SUPPORT>>

Run ==
    \E tokens \in TokenLists :
        /\ last' = [Called("run", tokens) EXCEPT !.result = RunCall(stack, tokens)]
        /\ UNCHANGED <<registered_functions, label, stack, LANGUAGE_SUPPORT>>

ToJson ==
    /\ LET j == ToJsonCall(stack)
       IN  last' = [Called("to_json", << >>) EXCEPT !.err = j.err, !.result = j.result]
    /\ UNCHANGED <<registered_functions, label, stack, LANGUAGE_SUPPORT>>

\* The pipeline load builds is local to the call: on success it is the
\* return value (last.result), on an exception nothing is returned.
Load ==
    \E serialised \in Serialised :
        /\ LET r == LoadCall(serialised)
           IN  last' = [Called("load", serialised) EXCEPT
                            !.err = r.err, !.msg = r.msg,
                            !.result = IF r.err = "none" THEN r.stack ELSE << >>]
        /\ UNCHANGED <<registered_functions, label, stack, LANGUAGE_SUPPORT>>

Next ==
    \/ Register
    \/ Add
    \/ Before
    \/ After
    \/ Remove
    \/ Reset
    \/ Run
    \/ ToJson
    \/ Load

\* get_nltk_builder(languages).  The trimmer is registered once the loop over
\* the languages is through, before the builder's pipelines are filled.
Build ==
    \E languages \in LanguageLists, bp \in BuilderStacks :
        \E b \in {GetNltkBuilder(languages, bp, bp)} :
            /\ b.registered => Registrable(b.built.trimmer_label)
            /\ label' = IF b.registered
                        THEN RegisterLabels(b.trimmer, b.built.trimmer_label)
                        ELSE label
            /\ registered_functions' =
                   IF b.registered
                   THEN RegisterRegistry(b.trimmer, b.built.trimmer_label)
                   ELSE registered_functions
            /\ last' = [Called("get_nltk_builder", languages) EXCEPT
                            !.err = b.err, !.built = b.built,
                            !.log = IF b.registered
                                    THEN RegisterLog(b.built.trimmer_label) ELSE {}]
            /\ UNCHANGED <<stack, LANGUAGE_SUPPORT>>

NextLang ==
    \/ Next
    \/ Build

Spec == Init /\ [][Next]_vars

\* Pipeline and lunr.languages together.
SpecLang == InitLang /\ [][NextLang]_vars

SpecStack == InitStack /\ [][Next]_vars

\* lunr.languages alone: get_nltk_builder between registrations, the one
\* other operation that writes what it reads.
NextBuild ==
    \/ Register
    \/ Build

SpecBuild == InitLang /\ [][NextBuild]_vars

\* ------------------------------------------------------------------ claims
\* The execution semantics the specification gives for run: every stage maps
\* the list left by the stage before it, a falsy output dropping its token.
RECURSIVE ChainStage(_, _, _)
ChainStage(fn, current, i) ==
    IF i > Len(current) THEN << >>
    ELSE LET out == Apply(fn, current[i], i - 1, current)
         IN  (IF out = "" THEN << >> ELSE <<out>>) \o ChainStage(fn, current, i + 1)

RECURSIVE ChainFrom(_, _, _)
ChainFrom(s, k, current) ==
    IF k > Len(s) THEN current
    ELSE ChainFrom(s, k + 1, ChainStage(s[k], current, 1))

Chain(s, tokens) == ChainFrom(s, 1, tokens)

\* Some stage of the chain returns '' for some token it is given.
RECURSIVE DropsFrom(_, _, _)
DropsFrom(s, k, current) ==
    /\ k <= Len(s)
    /\ \/ \E i \in 1..Len(current) : Apply(s[k], current[i], i - 1, current) = ""
       \/ DropsFrom(s, k + 1, ChainStage(s[k], current, 1))

\* A stage that returns '' for no token of the vocabulary.
NeverDrops(fn) == \A t \in Tokens : Apply(fn, t, 0, <<t>>) # ""

\* C1: run is a stage-by-stage chain: the value it returns is the list left
\* by the last stage, each stage having been given the list left by the stage
\* before it (the input list itself for a pipeline without stages).
RunIsStageChain ==
    last.op = "run" => last.result = Chain(last.pre, last.args)

\* C2: when a stage returns '' for a token, exactly that token is removed:
\* the result holds one entry per token that no stage dropped, each entry
\* being that token as transformed by every stage.
RunDropsExactlyTheEmptied ==
    (last.op = "run" /\ DropsFrom(last.pre, 1, last.args)) =>
        /\ Len(last.result) = Len(Chain(last.pre, last.args))
        /\ \A i \in 1..Len(last.result) : last.result[i] = Chain(last.pre, last.args)[i]

\* C3: with stages that never return '', run returns as many entries as it
\* was given tokens, the i-th entry derived from the i-th token.
RunKeepsLengthAndOrder ==
    (last.op = "run" /\ \A k \in 1..Len(last.pre) : NeverDrops(last.pre[k])) =>
        /\ Len(last.result) = Len(last.args)
        /\ \A i \in 1..Len(last.args) :
               last.result[i] = Chain(last.pre, <<last.args[i]>>)[1]

\* Position (from 1) of the first occurrence of x in s, and s without the
\* element at position q.
Occurs(s, x) == x \in {s[k] : k \in 1..Len(s)}

FirstPos(s, x) ==
    CHOOSE k \in 1..Len(s) : s[k] = x /\ \A j \in 1..Len(s) : s[j] = x => k <= j

Without(s, q) == [k \in 1..(Len(s) - 1) |-> IF k < q THEN s[k] ELSE s[k + 1]]

\* s is t with x put in at position q.
PutAt(s, t, x, q) ==
    /\ Len(s) = Len(t) + 1
    /\ q \in 1..Len(s)
    /\ s[q] = x
    /\ Without(s, q) = t

\* C4: round trip: load(p.to_json()) of a pipeline all of whose functions
\* were registered succeeds and returns a pipeline with the function sequence
\* of p, hence with the run output of p on every token list.
LoadOfToJsonRoundTrips ==
    (/\ last.op = "load"
     /\ \A k \in 1..Len(stack) : stack[k] \in DOMAIN label
     /\ last.args = ToJsonCall(stack).result) =>
        /\ last.err = "none"
        /\ last.result = stack
        /\ \A tokens \in TokenLists : RunCall(last.result, tokens) = RunCall(stack, tokens)

\* C5: add(f1, ..., fn) succeeds and leaves the sequence it found followed by
\* f1, ..., fn in argument order.
AddAppendsInOrder ==
    last.op = "add" => (last.err = "none" /\ stack = last.pre \o last.args)

\* C6: with existing_fn in the sequence, before puts new_fn at the position
\* of the first occurrence of existing_fn (so immediately before it) and
\* after at the position following it; every other element keeps its place
\* in the order and the length grows by one.  So before(f2, f_new) then
\* after(f1, f_new2) on [f1, f2, f3] gives [f1, f_new2, f_new, f2, f3].
InsertsNextToFirstOccurrence ==
    /\ (last.op \in {"before", "after"} /\ Occurs(last.pre, last.args[1])) =>
           /\ last.err = "none"
           /\ PutAt(stack, last.pre, last.args[2],
                    FirstPos(last.pre, last.args[1]) + (IF last.op = "after" THEN 1 ELSE 0))
    /\ AfterCall(BeforeCall(<<"f1", "f2", "f3">>, "f2", "f_new").stack, "f1", "f_new2").stack
           = <<"f1", "f_new2", "f_new", "f2", "f3">>

\* after on a sequence holding existing_fn twice: the first occurrence decides.
InsertedAfterFirstOfTwo ==
    /\ last.op = "after"
    /\ last.err = "none"
    /\ Cardinality({k \in 1..Len(last.pre) : last.pre[k] = last.args[1]}) = 2
    /\ last.args[2] # last.args[1]

\* The sequence a call leaves when it takes full effect.
FullEffect(op, pre, args) ==
    CASE op = "add" -> pre \o args
      [] op \in {"before", "after"} ->
             LET q == FirstPos(pre, args[1]) + (IF op = "after" THEN 1 ELSE 0)
             IN  [k \in 1..(Len(pre) + 1) |->
                     IF k < q THEN pre[k] ELSE IF k = q THEN args[2] ELSE pre[k - 1]]
      [] OTHER ->
             IF Occurs(pre, args[1]) THEN Without(pre, FirstPos(pre, args[1])) ELSE pre

\* C7: mutations are atomic: before and after with existing_fn absent raise
\* and leave the sequence as it was, and every add, before, after and remove
\* call that raises leaves the sequence unchanged while one that returns has
\* taken its full effect.
MutationsAreAtomic ==
    last.op \in {"add", "before", "after", "remove"} =>
        /\ (last.op \in {"before", "after"} /\ ~Occurs(last.pre, last.args[1])) =>
               (last.err = "Exception" /\ stack = last.pre)
        /\ IF last.err = "none"
           THEN stack = FullEffect(last.op, last.pre, last.args)
           ELSE stack = last.pre

\* before on a non-empty sequence that does not hold existing_fn.
InsertMissedOnNonEmpty ==
    /\ last.op = "before"
    /\ last.err = "Exception"
    /\ last.pre # << >>

\* C8: remove(fn) deletes the first occurrence of fn and nothing else; with
\* fn absent it raises nothing and leaves the sequence as it was.
RemoveDeletesFirstOnly ==
    last.op = "remove" =>
        /\ last.err = "none"
        /\ IF Occurs(last.pre, last.args[1])
           THEN stack = Without(last.pre, FirstPos(last.pre, last.args[1]))
           ELSE stack = last.pre

\* remove of a function the sequence held more than once, not at its end only.
RemovedFirstOfSeveral ==
    /\ last.op = "remove"
    /\ Occurs(stack, last.args[1])
    /\ Len(stack) < Len(last.pre)
    /\ stack # SubSeq(last.pre, 1, Len(stack))

\* C9: load of a list with a label the registry does not bind fails at the
\* first such label with the unregistered-function error, whose message names
\* that label; no pipeline is returned and the registry is unchanged.
LoadFailsNamingFirstUnbound ==
    (last.op = "load" /\ \E k \in 1..Len(last.args) : last.args[k] \notin DOMAIN last.pre_registry) =>
        LET first == CHOOSE k \in 1..Len(last.args) :
                         /\ last.args[k] \notin DOMAIN last.pre_registry
                         /\ \A j \in 1..(k - 1) : last.args[j] \in DOMAIN last.pre_registry
        IN  /\ last.err = "Exception"
            /\ \E j \in 1..Len(last.msg) : last.msg[j] = last.args[first]
            /\ last.result = << >>
            /\ registered_functions = last.pre_registry

\* C10: register_function(fn, label) never fails and leaves fn.label = label
\* and registry[label] = fn, the label having been bound before or not.
RegisterBindsLabelAndFunction ==
    last.op = "register_function" =>
        /\ last.err = "none"
        /\ last.args[1] \in DOMAIN label
        /\ label[last.args[1]] = last.args[2]
        /\ last.args[2] \in DOMAIN registered_functions
        /\ registered_functions[last.args[2]] = last.args[1]

\* register_function on a label bound to another function.
RegisteredOverAnother ==
    /\ last.op = "register_function"
    /\ last.args[2] \in DOMAIN last.pre_registry
    /\ last.pre_registry[last.args[2]] # last.args[1]
    /\ <<"overwrite", last.args[2]>> \in last.log

\* C11: registrations are permanent: a label bound in the registry is bound in
\* the state after every call, whichever of register_function, load, add,
\* before, after, remove, reset, run, to_json and get_nltk_builder it is.
RegistrationsArePermanent ==
    [][DOMAIN registered_functions \subseteq DOMAIN registered_functions']_vars

\* A label bound by register_function is still bound after a later build bound
\* the label of its trimmer next to it.
BoundThroughALaterBuild ==
    /\ last.op = "get_nltk_builder"
    /\ DOMAIN last.pre_registry \cap Labels # {}
    /\ last.built.trimmer_label \in DOMAIN registered_functions \ DOMAIN last.pre_registry
    /\ DOMAIN last.pre_registry \subseteq DOMAIN registered_functions

\* C12 as stated: a label, once set, is the function's label in every later
\* state.
LabelNeverChanges ==
    [][\A fn \in DOMAIN label : fn \in DOMAIN label' /\ label'[fn] = label[fn]]_vars

\* C12, amended: a function keeps its label through every call, the
\* registration of another function under that label included, except
\* register_function called on the function itself, which sets the new label.
LabelChangesOnlyByOwnRegistration ==
    [][\A fn \in DOMAIN label :
          /\ fn \in DOMAIN label'
          /\ label'[fn] # label[fn] =>
                 /\ last'.op = "register_function"
                 /\ last'.args = <<fn, label'[fn]>>]_vars

\* Another function was just registered under the label a function carries.
LabelSharedAfterOverwrite ==
    /\ last.op = "register_function"
    /\ \E fn \in DOMAIN label : fn # last.args[1] /\ label[fn] = last.args[2]

\* The stemmer and the stop-word filter the specification wires in for a
\* language: the defaults for "en", the registered stemmer and a generated
\* filter for any other.
StemmerFor(language) ==
    IF language = "en" THEN "stemmer" ELSE LanguageStemmer(language)

StemmersFor(languages) == [i \in 1..Len(languages) |-> StemmerFor(languages[i])]

RECURSIVE FiltersFor(_)
FiltersFor(languages) ==
    IF languages = << >> THEN << >>
    ELSE (IF Head(languages) = "en" THEN << >>
          ELSE <<GenerateStopWordFilter({}, Head(languages))>>)
         \o FiltersFor(Tail(languages))

AllSupported(languages) ==
    \A i \in 1..Len(languages) : languages[i] \in DOMAIN SUPPORTED_LANGUAGES

\* C13: get_nltk_builder(languages), every language supported and nltk there,
\* returns a builder whose indexing pipeline is exactly the merged trimmer,
\* then one stop-word filter per non-"en" language in language order, then
\* one stemmer per language in language order, whatever the pipeline held.
IndexingPipelineIsTrimmerFiltersStemmers ==
    (last.op = "get_nltk_builder" /\ LANGUAGE_SUPPORT /\ AllSupported(last.args)) =>
        /\ last.built.returned
        /\ last.built.pipeline =
               <<GenerateTrimmer(last.args)>> \o FiltersFor(last.args)
                   \o StemmersFor(last.args)

\* C14: get_nltk_builder(languages), every language supported and nltk there,
\* returns a builder whose search pipeline holds the stemmers only, one per
\* language in the order requested, whatever the search pipeline held.
SearchPipelineIsStemmers ==
    (last.op = "get_nltk_builder" /\ LANGUAGE_SUPPORT /\ AllSupported(last.args)) =>
        /\ last.built.returned
        /\ last.built.search_pipeline = StemmersFor(last.args)

\* C15: get_nltk_builder with a language code outside SUPPORTED_LANGUAGES at
\* any position fails before it changes anything: the lookup raises KeyError
\* (the unbound nltk raises NameError first when nltk is missing), the registry
\* is what it was, nothing is logged, and no builder was made, so no builder
\* pipeline was touched.
UnsupportedLanguageFailsBeforeMutation ==
    (last.op = "get_nltk_builder" /\ ~AllSupported(last.args)) =>
        /\ last.err = IF LANGUAGE_SUPPORT THEN "KeyError" ELSE "NameError"
        /\ registered_functions = last.pre_registry
        /\ last.log = {}
        /\ last.built = [NoBuilder EXCEPT !.initial = last.built.initial,
                                          !.initial_search = last.built.initial_search]

\* A build that met its unsupported code after a supported language it had
\* already fetched the stop words and the stemmer of.
UnsupportedAfterSupported ==
    /\ last.op = "get_nltk_builder"
    /\ LANGUAGE_SUPPORT
    /\ last.args = <<"fr", "zz">>
    /\ last.err = "KeyError"
    /\ DOMAIN last.pre_registry \cap Labels # {}

\* The codes from the i-th on, each after the first behind a '-'.
RECURSIVE Dashed(_, _)
Dashed(languages, i) ==
    IF i > Len(languages) THEN ""
    ELSE (IF i > 1 THEN "-" ELSE "") \o languages[i] \o Dashed(languages, i + 1)

\* C16 as stated: the label the merged trimmer is registered under is built
\* from the sorted list of the requested languages, so that it depends on the
\* set of languages and not on their order.
TrimmerLabelFromSortedLanguages ==
    (last.op = "get_nltk_builder" /\ last.built.trimmer_label # "") =>
        last.built.trimmer_label = TrimmerLabelSorted(last.args)

\* C16, amended: the label is 'lunr-multi-trimmer-' followed by the requested
\* languages in the order given, joined by '-', and the registry binds the
\* trimmer of this build under it.
TrimmerLabelFromLanguagesAsGiven ==
    (last.op = "get_nltk_builder" /\ last.built.trimmer_label # "") =>
        /\ last.built.trimmer_label =
               "lunr-multi-trimmer-" \o Dashed(last.args, 1)
        /\ last.built.trimmer_label \in DOMAIN registered_functions
        /\ registered_functions[last.built.trimmer_label] = GenerateTrimmer(last.args)

\* A build of two languages requested against the order of their codes.
TrimmerRegisteredForUnsortedLanguages ==
    /\ last.op = "get_nltk_builder"
    /\ last.args = <<"fr", "en">>
    /\ "lunr-multi-trimmer-fr-en" \in DOMAIN registered_functions
    /\ "lunr-multi-trimmer-en-fr" \notin DOMAIN registered_functions

OnlyDefault(languages) == \A i \in 1..Len(languages) : languages[i] = "en"

\* C17 as stated: without nltk (LANGUAGE_SUPPORT is False) get_nltk_builder
\* fails for every language list, lists of "en" alone included, with the error
\* of the missing language support, having done nothing.
FailsWithoutLanguageSupport ==
    (last.op = "get_nltk_builder" /\ ~LANGUAGE_SUPPORT) =>
        /\ last.err = "NameError"
        /\ registered_functions = last.pre_registry

\* C17, amended: without nltk, a list holding a language other than "en"
\* fails at that language with the NameError of the unbound nltk, before
\* anything is changed; a list of "en" alone (or an empty one) is not refused
\* for the missing support: the loop passes and the trimmer is registered.
FailsWithoutLanguageSupportUnlessDefault ==
    (last.op = "get_nltk_builder" /\ ~LANGUAGE_SUPPORT) =>
        IF OnlyDefault(last.args)
        THEN /\ last.err # "NameError"
             /\ last.built.trimmer_label \in DOMAIN registered_functions
             /\ registered_functions[last.built.trimmer_label] = GenerateTrimmer(last.args)
        ELSE /\ last.err = "NameError"
             /\ registered_functions = last.pre_registry
             /\ last.log = {}
             /\ ~last.built.returned

\* Without nltk, a build of the default language alone got as far as
\* registering its trimmer.
DefaultLanguageBuiltWithoutSupport ==
    /\ last.op = "get_nltk_builder"
    /\ ~LANGUAGE_SUPPORT
    /\ last.args = <<"en">>
    /\ "lunr-multi-trimmer-en" \in DOMAIN registered_functions \ DOMAIN last.pre_registry

\* The stop words in use for a language other than "en": those its stop-word
\* filter is generated from.
StopWordsInUse(language) ==
    IF language = "fa" THEN persian_stopwords
    ELSE NltkStopwords(SUPPORTED_LANGUAGES[language])

NewFns(call) == IF call.op = "add" THEN {call.args[k] : k \in 1..Len(call.args)}
                ELSE {call.args[2]}

\* C19: add, before and after log the not-registered warning for every new
\* function whose label the registry does not bind (no label, or a label that
\* is not a key of the registry), and the function is placed in the sequence
\* all the same (for before and after: when existing_fn is there).
WarnsAndPlacesUnregistered ==
    last.op \in {"add", "before", "after"} =>
        \A fn \in NewFns(last) :
            (fn \notin DOMAIN label \/ label[fn] \notin DOMAIN registered_functions) =>
                /\ <<"not registered", fn>> \in last.log
                /\ (last.op = "add" \/ Occurs(last.pre, last.args[1])) => Occurs(stack, fn)

\* The outputs of fn over all of tokens, concatenated.
RECURSIVE ConcatOutputs(_, _, _)
ConcatOutputs(fn, tokens, i) ==
    IF i > Len(tokens) THEN ""
    ELSE Apply(fn, tokens[i], i - 1, tokens) \o ConcatOutputs(fn, tokens, i + 1)

\* C20: run as implemented returns one string per stage: the stage's outputs
\* over the tokens given to run, concatenated, the scan ending at the first
\* token after which nothing has been accumulated.
RunReturnsOneStringPerStage ==
    last.op = "run" =>
        /\ Len(last.result) = Len(last.pre)
        /\ \A k \in 1..Len(last.pre) :
               LET out(i) == Apply(last.pre[k], last.args[i], i - 1, last.args)
                   stops == {i \in 1..Len(last.args) : \A j \in 1..i : out(j) = ""}
               IN  last.result[k] = IF stops # {} THEN ""
                                    ELSE ConcatOutputs(last.pre[k], last.args, 1)

\* run whose stage stopped at a first token it emptied, a later token left
\* unscanned, and with fewer stages than tokens.
RunStoppedAtEmptiedFirstToken ==
    /\ last.op = "run"
    /\ Len(last.pre) < Len(last.args)
    /\ \E k \in 1..Len(last.pre) :
           /\ last.result[k] = ""
           /\ Apply(last.pre[k], last.args[2], 1, last.args) # ""
====
